---- MODULE Spec2Model ----
(***************************************************************************)
(* Model of the NAV analysis batch of src/core/nav_analyzer.py:            *)
(* NAVAnalyzer.analyze_securities drives, for every roster row in order,   *)
(* fetch_nav_data (retried by tenacity), process_nav_data,                 *)
(* generate_statistics and generate_html_report, isolates every            *)
(* per-security exception and finally writes the consolidated summary.     *)
(***************************************************************************)
EXTENDS Integers, Sequences, FiniteSets, TLC

\* ------------------------------------------------------------------------
\* Bounds of the model
\* ------------------------------------------------------------------------
\* Longest roster (number of rows of the input CSV).
MaxRoster == 3
\* Longest roster of a run that is repeated.
MaxRerunRoster == 2

\* ------------------------------------------------------------------------
\* Program constants
\* ------------------------------------------------------------------------
\* @retry(stop=stop_after_attempt(5), ...)
stop_after_attempt == 5
\* @retry(..., wait=wait_random(min=1, max=2))
wait_min == 1
wait_max == 2
\* rf=0.03 of qs.stats.sharpe / qs.stats.sortino, in percent
rf_percent == 3

\* ------------------------------------------------------------------------
\* Input domains
\* ------------------------------------------------------------------------
\* A roster cell of a column that happens to be called like a metric.
CsvSharpe == <<"csv", "1.5">>

\* The six keys of the dict built by generate_statistics.
MetricNames ==
    {"cagr", "volatility", "sharpe", "sortino", "max_drawdown", "value_at_risk"}

\* Rows of a roster file: the isin column and arbitrary descriptive columns
\* (none, a display name, a display name and a column called "sharpe").
Rows1 == { [isin |-> "INF001"], [isin |-> "INF002"] }
Rows2 ==
    { [isin |-> "INF001", security_name |-> "Fund A"],
      [isin |-> "INF002", security_name |-> "Fund B"] }
Rows3 ==
    { [isin |-> "INF001", security_name |-> "Fund A", sharpe |-> CsvSharpe],
      [isin |-> "INF002", security_name |-> "Fund B", sharpe |-> CsvSharpe] }

SeqsUpTo(S, n) == UNION { [1..k -> S] : k \in 0..n }

\* The frames pd.read_csv can return: every row has the same columns.
Rosters ==
    SeqsUpTo(Rows1, MaxRoster) \cup SeqsUpTo(Rows2, MaxRoster)
      \cup SeqsUpTo(Rows3, MaxRoster)

\* The csv file is either unreadable/malformed or holds a roster.
CsvFiles == [readable : {TRUE}, frame : Rosters]
              \cup {[readable |-> FALSE, frame |-> <<>>]}

\* Raw "data" payloads of the upstream: lists of [timestamp, nav] pairs,
\* sorted, unsorted, and one of a wrong shape (row of arity 1).
NavLists ==
    { << <<100, 9>>, <<200, 10>> >>,
      << <<200, 10>>, <<100, 9>> >>,
      << <<100>> >> }

\* A decoded JSON object: which of the keys "status" and "data" it has and
\* their values (normalised when the key is absent).
JsonObjects ==
    { o \in [keys : SUBSET {"status", "data"},
             status : {"success", "error", "None"},
             data : NavLists \cup {<<>>}] :
        /\ ("status" \in o.keys) <=> (o.status # "None")
        /\ ("data" \in o.keys) <=> (o.data # <<>>)
        \* the data varies in the objects that pass the format check
        /\ (o.status # "success" /\ "data" \in o.keys) =>
             o.data = << <<100, 9>>, <<200, 10>> >> }

NoObject == [keys |-> {}, status |-> "None", data |-> <<>>]

\* Response bodies: not JSON at all, JSON that is no object, a JSON object.
Bodies ==
    {[kind |-> "notjson", obj |-> NoObject], [kind |-> "list", obj |-> NoObject]}
      \cup [kind : {"dict"}, obj : JsonObjects]

GoodBody ==
    [kind |-> "dict",
     obj |-> [keys |-> {"status", "data"}, status |-> "success",
              data |-> << <<100, 9>>, <<200, 10>> >>]]

NoBody == [kind |-> "none", obj |-> NoObject]

StatusCodes == {200, 404}

\* What one requests.get can come back with: a connection failure, or a
\* response with a status code and a body.
Responses ==
    {[net |-> "error", status_code |-> 0, body |-> NoBody]}
      \cup [net : {"ok"}, status_code : {200}, body : Bodies]
      \cup [net : {"ok"}, status_code : StatusCodes \ {200},
            body : {GoodBody, [kind |-> "notjson", obj |-> NoObject]}]

NoResponse == [net |-> "none", status_code |-> 0, body |-> NoBody]

\* The values the two qs calls after the series is built can take in one
\* run: the call returns (TRUE) or raises (FALSE).
LibraryOutcomes == BOOLEAN

\* Calendar dates datetime.now() can fall on.
Dates == {"2025-01-01", "2025-01-02"}

\* ------------------------------------------------------------------------
\* Exceptions
\* ------------------------------------------------------------------------
\* The failure of one attempt of fetch_nav_data: what was raised, and in
\* which attempt.
AttemptFailure(t, n) == [type |-> t, attempt_number |-> n]
NoFailure == [type |-> "none", attempt_number |-> 0]

\* An exception object as the except clause of analyze_securities sees it.
Raised(t, n) == [type |-> t, attempt_number |-> n, last_attempt |-> NoFailure]
NoException == Raised("none", 0)

\* tenacity's RetryError: it carries the outcome of the last attempt.
RetryError(f) ==
    [type |-> "RetryError", attempt_number |-> 0, last_attempt |-> f]

\* ------------------------------------------------------------------------
\* fetch_nav_data: one attempt
\* ------------------------------------------------------------------------
\* response.raise_for_status(): raises for 4xx and 5xx.
RaisesForStatus(r) == 400 <= r.status_code /\ r.status_code < 600

\* data.get("status")
GetStatus(o) == IF "status" \in o.keys THEN o.status ELSE "None"

\* Mutant: the two checks are joined by "and".
InvalidFormatAnd(o) == ~(GetStatus(o) = "success") /\ "data" \notin o.keys

\* not data.get("status") == "success" or "data" not in data
InvalidFormat(o) == ~(GetStatus(o) = "success") \/ "data" \notin o.keys

\* The body of fetch_nav_data on one response: the exception it raises,
\* "none" when it returns the decoded data.
AttemptRaises(r) ==
    IF r.net = "error" THEN "ConnectionError"
    ELSE IF RaisesForStatus(r) THEN "HTTPError"
    ELSE IF r.body.kind = "notjson" THEN "JSONDecodeError"
    ELSE IF r.body.kind # "dict" THEN "AttributeError"
    ELSE IF InvalidFormat(r.body.obj) THEN "ValueError"
    ELSE "none"

\* Mutant: the cap is applied one attempt late.
ShouldStopLate(n) == n > stop_after_attempt

\* stop_after_attempt(5): no further attempt once this many were made.
ShouldStop(n) == n >= stop_after_attempt

\* Mutant: retry(..., reraise=True), the last exception itself is raised.
RetryExhaustedReraise(f) == Raised(f.type, f.attempt_number)

\* What tenacity raises to the caller when it stops (reraise is not set).
RetryExhausted(f) == RetryError(f)

\* wait_random(min=1, max=2)
WaitChoices == wait_min..wait_max

\* ------------------------------------------------------------------------
\* process_nav_data
\* ------------------------------------------------------------------------
\* pd.DataFrame(nav_data, columns=["timestamp", "nav"]) raises when the rows
\* do not have two columns.
WellShaped(nav_data) == \A i \in 1..Len(nav_data) : Len(nav_data[i]) = 2

\* pd.to_datetime(ts, unit="s")
ToDatetime(ts) == [epoch_s |-> ts]

\* pd.Series(df["nav"].values, index=df["date"]): one point per input row,
\* in the order of the rows.
process_nav_data(nav_data) ==
    [i \in 1..Len(nav_data) |->
        [date |-> ToDatetime(nav_data[i][1]), nav |-> nav_data[i][2]]]

\* ------------------------------------------------------------------------
\* generate_statistics
\* ------------------------------------------------------------------------
\* The six quantstats metrics, as uninterpreted functions of the series
\* (sharpe and sortino also of the risk-free rate).
generate_statistics(nav_series) ==
    [cagr |-> <<"qs.stats.cagr", nav_series>>,
     volatility |-> <<"qs.stats.volatility", nav_series>>,
     sharpe |-> <<"qs.stats.sharpe", nav_series, rf_percent>>,
     sortino |-> <<"qs.stats.sortino", nav_series, rf_percent>>,
     max_drawdown |-> <<"qs.stats.max_drawdown", nav_series>>,
     value_at_risk |-> <<"qs.stats.value_at_risk", nav_series>>]

NoStats == <<>>

\* result_row = row.to_dict(); result_row.update(stats)
MergeRow(row, st) ==
    [k \in DOMAIN row \cup DOMAIN st |->
        IF k \in DOMAIN st THEN st[k] ELSE row[k]]

\* ------------------------------------------------------------------------
\* State
\* ------------------------------------------------------------------------
VARIABLES
    csv,          \* the file at csv_path
    pc,           \* where analyze_securities stands
    df,           \* the loaded roster
    idx,          \* position of df.iterrows(): the row being processed
    attempt,      \* attempts of fetch_nav_data made for the current row
    response,     \* the response of the latest attempt
    outcome,      \* the failure of the latest attempt
    slept,        \* the delay of the retry wait in progress
    nav_data,     \* the data returned by fetch_nav_data
    nav_series,   \* the series returned by process_nav_data
    stats,        \* the dict returned by generate_statistics
    reports,      \* ISINs whose report file was written by this run
    results,      \* the accumulated result rows
    src,          \* for every result row, the roster position it came from
    status,       \* per roster position, how far the security got
    caught,       \* the exception the except clause caught last
    uncaught,     \* the exception that left analyze_securities
    saves,        \* the summaries written by this run: name and rows
    rec,          \* the responses and library outcomes are kept for a rerun
    run,          \* 1, or 2 in the rerun
    upstream,     \* the responses served in run 1, in order
    library,      \* the outcomes of the qs calls in run 1, in order
    upos,         \* responses consumed by this run
    lpos,         \* library outcomes consumed by this run
    first_saves,  \* the summaries written by run 1
    waits,        \* retry waits made for the current row
    args          \* the namespace parse_args returns

vars ==
    <<csv, pc, df, idx, attempt, response, outcome, slept, nav_data,
      nav_series, stats, reports, results, src, status, caught, uncaught,
      saves, rec, run, upstream, library, upos, lpos, first_saves, waits,
      args>>

locals == <<nav_data, nav_series, stats>>
fetchv == <<attempt, response, outcome, slept, waits>>
batch == <<reports, results, src>>
input == <<csv, rec, run, first_saves, args>>
tapes == <<upstream, library, upos, lpos>>

NoSeries == <<>>

\* ------------------------------------------------------------------------
\* The environment: upstream responses and library outcomes
\* ------------------------------------------------------------------------
\* Responses used when a run is repeated.
GoodResponse == [net |-> "ok", status_code |-> 200, body |-> GoodBody]
RerunResponses ==
    {GoodResponse, [net |-> "ok", status_code |-> 404, body |-> GoodBody]}

\* The responses the upstream can give to the next request: any, or in a
\* rerun the response it gave to the same request of run 1.
ServedResponses ==
    IF ~rec THEN Responses
    ELSE IF run = 2 /\ upos < Len(upstream) THEN {upstream[upos + 1]}
    ELSE RerunResponses

ServeResponse(r) ==
    /\ upos' = IF rec THEN upos + 1 ELSE upos
    /\ upstream' = IF rec /\ run = 1 THEN Append(upstream, r) ELSE upstream

\* The same for the calls into quantstats.
ServedOutcomes ==
    IF rec /\ run = 2 /\ lpos < Len(library) THEN {library[lpos + 1]}
    ELSE LibraryOutcomes

ServeOutcome(ok) ==
    /\ lpos' = IF rec THEN lpos + 1 ELSE lpos
    /\ library' = IF rec /\ run = 1 THEN Append(library, ok) ELSE library

\* ------------------------------------------------------------------------
\* Initial states
\* ------------------------------------------------------------------------
\* The state of the process before analyze_securities has done anything.
FreshData ==
    /\ df = <<>>
    /\ idx = 0
    /\ attempt = 0
    /\ response = NoResponse
    /\ outcome = NoFailure
    /\ slept = 0
    /\ waits = 0
    /\ nav_data = NoObject
    /\ nav_series = NoSeries
    /\ stats = NoStats
    /\ reports = {}
    /\ results = <<>>
    /\ src = <<>>
    /\ status = <<>>
    /\ caught = NoException
    /\ uncaught = NoException
    /\ saves = <<>>

\* analyze_securities is entered.
Fresh ==
    /\ pc = "load"
    /\ FreshData

\* Both options are given on the command line.
BothGiven == [csv_path |-> "roster.csv", csrf_token |-> "token"]

NoTapes ==
    /\ run = 1
    /\ upstream = <<>>
    /\ library = <<>>
    /\ upos = 0
    /\ lpos = 0
    /\ first_saves = <<>>

Init ==
    /\ csv \in CsvFiles
    /\ args = BothGiven
    /\ rec = FALSE
    /\ Fresh
    /\ NoTapes

\* ------------------------------------------------------------------------
\* analyze_securities
\* ------------------------------------------------------------------------
\* Mutant: the retry covers the whole pipeline of a row: after a failure the
\* row is fetched again while attempts are left.
ExceptRefetch(e) ==
    /\ caught' = e
    /\ status' = IF attempt < stop_after_attempt THEN status
                 ELSE [status EXCEPT ![idx] = "failed"]
    /\ nav_data' = NoObject
    /\ nav_series' = NoSeries
    /\ stats' = NoStats
    /\ pc' = IF attempt < stop_after_attempt THEN "fetch" ELSE "next"

\* Mutant: the except clause leaves the loop instead of continuing.
ExceptBreak(e) ==
    /\ caught' = e
    /\ status' = [status EXCEPT ![idx] = "failed"]
    /\ nav_data' = NoObject
    /\ nav_series' = NoSeries
    /\ stats' = NoStats
    /\ pc' = "save"

\* except Exception as e: logger.error(...); continue
ExceptContinue(e) ==
    /\ caught' = e
    /\ status' = [status EXCEPT ![idx] = "failed"]
    /\ nav_data' = NoObject
    /\ nav_series' = NoSeries
    /\ stats' = NoStats
    /\ pc' = "next"

\* Mutant: the exception of read_csv is logged and an empty frame returned.
LoadIsinDataSwallow ==
    /\ pc = "load"
    /\ df' = csv.frame
    /\ status' = [i \in 1..Len(csv.frame) |-> "pending"]
    /\ pc' = "next"
    /\ UNCHANGED uncaught
    /\ UNCHANGED <<idx, fetchv, locals, batch, caught, saves, input, tapes>>

\* df = self.load_isin_data(): read_csv returns the frame, or the exception
\* is logged and raised again, and leaves analyze_securities.
LoadIsinData ==
    /\ pc = "load"
    /\ IF csv.readable
       THEN /\ df' = csv.frame
            /\ status' = [i \in 1..Len(csv.frame) |-> "pending"]
            /\ pc' = "next"
            /\ UNCHANGED uncaught
       ELSE /\ uncaught' = Raised("CsvError", 0)
            /\ pc' = "aborted"
            /\ UNCHANGED <<df, status>>
    /\ UNCHANGED <<idx, fetchv, locals, batch, caught, saves, input, tapes>>

\* Mutant: a row that failed is put back and worked on again.
NextRowRevisit ==
    /\ pc = "next"
    /\ IF idx > 0 /\ status[idx] = "failed"
       THEN /\ idx' = idx
            /\ status' = [status EXCEPT ![idx] = "pending"]
       ELSE /\ idx < Len(df)
            /\ idx' = idx + 1
            /\ UNCHANGED status
    /\ attempt' = 0
    /\ response' = NoResponse
    /\ outcome' = NoFailure
    /\ slept' = 0
    /\ waits' = 0
    /\ caught' = NoException
    /\ pc' = "fetch"
    /\ UNCHANGED <<df, locals, batch, uncaught, saves, input, tapes>>

\* Mutant: results = [] stands inside the loop.
NextRowResetsResults ==
    /\ pc = "next"
    /\ idx < Len(df)
    /\ idx' = idx + 1
    /\ attempt' = 0
    /\ response' = NoResponse
    /\ outcome' = NoFailure
    /\ slept' = 0
    /\ waits' = 0
    /\ caught' = NoException
    /\ results' = <<>>
    /\ src' = <<>>
    /\ pc' = "fetch"
    /\ UNCHANGED <<df, locals, reports, status, uncaught, saves, input, tapes>>

\* Mutant: the next row is started while the current one waits for a retry.
NextRowEager ==
    /\ pc \in {"next", "wait"}
    /\ idx < Len(df)
    /\ idx' = idx + 1
    /\ attempt' = 0
    /\ response' = NoResponse
    /\ outcome' = NoFailure
    /\ slept' = 0
    /\ waits' = 0
    /\ caught' = NoException
    /\ pc' = "fetch"
    /\ UNCHANGED <<df, locals, batch, status, uncaught, saves, input, tapes>>

\* for _, row in df.iterrows(): the next row; its fetch starts.
NextRow ==
    /\ pc = "next"
    /\ idx < Len(df)
    /\ idx' = idx + 1
    /\ attempt' = 0
    /\ response' = NoResponse
    /\ outcome' = NoFailure
    /\ slept' = 0
    /\ waits' = 0
    /\ caught' = NoException
    /\ pc' = "fetch"
    /\ UNCHANGED <<df, locals, batch, status, uncaught, saves, input, tapes>>

\* The loop is exhausted.
EndOfRoster ==
    /\ pc = "next"
    /\ ~(idx < Len(df))
    /\ pc' = "save"
    /\ UNCHANGED <<df, idx, fetchv, locals, batch, status, caught, uncaught,
                   saves, input, tapes>>

\* One attempt of fetch_nav_data under tenacity's retry: the data is
\* returned, or the attempt failed and tenacity waits for another attempt,
\* or it stops and raises into the except clause.
FetchAttempt ==
    /\ pc = "fetch"
    /\ \E r \in ServedResponses :
         LET n == attempt + 1
             t == AttemptRaises(r)
             f == AttemptFailure(t, n)
         IN  /\ attempt' = n
             /\ response' = r
             /\ slept' = 0
             /\ UNCHANGED waits
             /\ ServeResponse(r)
             /\ IF t = "none"
                THEN /\ outcome' = NoFailure
                     /\ nav_data' = r.body.obj
                     /\ status' = [status EXCEPT ![idx] = "fetched"]
                     /\ pc' = "process"
                     /\ UNCHANGED <<nav_series, stats, caught>>
                ELSE /\ outcome' = f
                     /\ IF ShouldStop(n)
                        THEN ExceptContinue(RetryExhausted(f))
                        ELSE /\ pc' = "wait"
                             /\ UNCHANGED <<locals, status, caught>>
    /\ UNCHANGED <<df, idx, batch, uncaught, saves, input, library, lpos>>

\* The wait between two attempts: wait_random(min=1, max=2). The response
\* of the failed attempt is gone with its call frame.
RetryWait ==
    /\ pc = "wait"
    /\ \E d \in WaitChoices : slept' = d
    /\ waits' = waits + 1
    /\ response' = NoResponse
    /\ pc' = "fetch"
    /\ UNCHANGED <<df, idx, attempt, outcome, locals, batch, status,
                   caught, uncaught, saves, input, tapes>>

\* Mutant: the call of generate_statistics is left out.
ProcessNavDataNoStats ==
    /\ pc = "process"
    /\ IF WellShaped(nav_data.data)
       THEN /\ nav_series' = process_nav_data(nav_data.data)
            /\ pc' = "report"
            /\ UNCHANGED <<nav_data, stats, status, caught>>
       ELSE ExceptContinue(Raised("ValueError", 0))
    /\ UNCHANGED <<df, idx, fetchv, batch, uncaught, saves, input, tapes>>

\* nav_series = self.process_nav_data(nav_data["data"])
ProcessNavData ==
    /\ pc = "process"
    /\ IF WellShaped(nav_data.data)
       THEN /\ nav_series' = process_nav_data(nav_data.data)
            /\ pc' = "stats"
            /\ UNCHANGED <<nav_data, stats, status, caught>>
       ELSE ExceptContinue(Raised("ValueError", 0))
    /\ UNCHANGED <<df, idx, fetchv, batch, uncaught, saves, input, tapes>>

\* stats = self.generate_statistics(nav_series): quantstats returns the six
\* metrics or raises.
GenerateStatistics ==
    /\ pc = "stats"
    /\ \E ok \in ServedOutcomes :
         /\ ServeOutcome(ok)
         /\ IF ok
            THEN /\ stats' = generate_statistics(nav_series)
                 /\ status' = [status EXCEPT ![idx] = "processed"]
                 /\ pc' = "report"
                 /\ UNCHANGED <<nav_data, nav_series, caught>>
            ELSE ExceptContinue(Raised("StatsError", 0))
    /\ UNCHANGED <<df, idx, fetchv, batch, uncaught, saves, input, upstream,
                   upos>>

\* Mutant: generate_html_report logs what qs.reports.html raises and
\* returns.
GenerateHtmlReportSwallow ==
    /\ pc = "report"
    /\ \E ok \in ServedOutcomes :
         /\ ServeOutcome(ok)
         /\ reports' = IF ok /\ "security_name" \in DOMAIN df[idx]
                       THEN reports \cup {df[idx].isin}
                       ELSE reports
         /\ status' = [status EXCEPT ![idx] = "reported"]
         /\ pc' = "append"
         /\ UNCHANGED <<locals, caught>>
    /\ UNCHANGED <<df, idx, fetchv, results, src, uncaught, saves, input,
                   upstream, upos>>

\* self.generate_html_report(nav_series, row, row["isin"]): the title needs
\* security_info['security_name']; qs.reports.html writes the file or raises.
GenerateHtmlReport ==
    /\ pc = "report"
    /\ IF "security_name" \notin DOMAIN df[idx]
       THEN /\ ExceptContinue(Raised("KeyError", 0))
            /\ UNCHANGED <<reports, library, lpos>>
       ELSE \E ok \in ServedOutcomes :
              /\ ServeOutcome(ok)
              /\ IF ok
                 THEN /\ reports' = reports \cup {df[idx].isin}
                      /\ status' = [status EXCEPT ![idx] = "reported"]
                      /\ pc' = "append"
                      /\ UNCHANGED <<locals, caught>>
                 ELSE /\ ExceptContinue(Raised("ReportError", 0))
                      /\ UNCHANGED reports
    /\ UNCHANGED <<df, idx, fetchv, results, src, uncaught, saves, input,
                   upstream, upos>>

\* Mutant: the sleep after a processed security is switched on
\* (time.sleep(random.uniform(1, 2)) at the end of the try body).
AppendResultSleep ==
    /\ pc = "append"
    /\ results' = Append(results, MergeRow(df[idx], stats))
    /\ src' = Append(src, idx)
    /\ status' = [status EXCEPT ![idx] = "recorded"]
    /\ nav_data' = NoObject
    /\ nav_series' = NoSeries
    /\ stats' = NoStats
    /\ \E d \in WaitChoices : slept' = d
    /\ waits' = waits + 1
    /\ pc' = "next"
    /\ UNCHANGED <<df, idx, attempt, response, outcome, reports, caught,
                   uncaught, saves, input, tapes>>

\* result_row = row.to_dict(); result_row.update(stats);
\* results.append(result_row)
AppendResult ==
    /\ pc = "append"
    /\ results' = Append(results, MergeRow(df[idx], stats))
    /\ src' = Append(src, idx)
    /\ status' = [status EXCEPT ![idx] = "recorded"]
    /\ nav_data' = NoObject
    /\ nav_series' = NoSeries
    /\ stats' = NoStats
    /\ pc' = "next"
    /\ UNCHANGED <<df, idx, fetchv, reports, caught, uncaught, saves, input,
                   tapes>>

\* Mutant: every row of the summary gets a column with the run date.
SaveReportStamped ==
    /\ pc = "save"
    /\ \E report_date \in Dates :
         saves' = Append(saves,
                    [name |-> report_date,
                     rows |-> [k \in 1..Len(results) |->
                                 [row |-> results[k], date |-> report_date]]])
    /\ pc' = "done"
    /\ UNCHANGED <<df, idx, fetchv, locals, batch, status, caught, uncaught,
                   input, tapes>>

\* Mutant: nothing is written when no security succeeded.
SaveReportUnlessEmpty ==
    /\ pc = "save"
    /\ \E report_date \in Dates :
         saves' = IF results = <<>> THEN saves
                  ELSE Append(saves, [name |-> report_date, rows |-> results])
    /\ pc' = "done"
    /\ UNCHANGED <<df, idx, fetchv, locals, batch, status, caught, uncaught,
                   input, tapes>>

\* pd.DataFrame(results).to_csv(report_dir / f"{report_date}_report.csv")
SaveReport ==
    /\ pc = "save"
    /\ \E report_date \in Dates :
         saves' = Append(saves, [name |-> report_date, rows |-> results])
    /\ pc' = "done"
    /\ UNCHANGED <<df, idx, fetchv, locals, batch, status, caught, uncaught,
                   input, tapes>>

Next ==
    \/ LoadIsinData
    \/ NextRow
    \/ EndOfRoster
    \/ FetchAttempt
    \/ RetryWait
    \/ ProcessNavData
    \/ GenerateStatistics
    \/ GenerateHtmlReport
    \/ AppendResult
    \/ SaveReport

Spec == Init /\ [][Next]_vars

\* ------------------------------------------------------------------------
\* Two runs on the same roster and the same environment
\* ------------------------------------------------------------------------
\* The program is started again on the same csv file; the upstream and the
\* library answer as they did in run 1, the waits and the date are free.
Rerun ==
    /\ rec
    /\ run = 1
    /\ pc \in {"done", "aborted"}
    /\ run' = 2
    /\ first_saves' = saves
    /\ upos' = 0
    /\ lpos' = 0
    /\ pc' = "load"
    /\ df' = <<>>
    /\ idx' = 0
    /\ attempt' = 0
    /\ response' = NoResponse
    /\ outcome' = NoFailure
    /\ slept' = 0
    /\ waits' = 0
    /\ nav_data' = NoObject
    /\ nav_series' = NoSeries
    /\ stats' = NoStats
    /\ reports' = {}
    /\ results' = <<>>
    /\ src' = <<>>
    /\ status' = <<>>
    /\ caught' = NoException
    /\ uncaught' = NoException
    /\ saves' = <<>>
    /\ UNCHANGED <<csv, args, rec, upstream, library>>

InitRerun ==
    /\ csv \in [readable : {TRUE}, frame : SeqsUpTo(Rows2, MaxRerunRoster)]
                 \cup {[readable |-> FALSE, frame |-> <<>>]}
    /\ args = BothGiven
    /\ rec = TRUE
    /\ Fresh
    /\ NoTapes

NextRerun == Next \/ Rerun

SpecRerun == InitRerun /\ [][NextRerun]_vars

\* ------------------------------------------------------------------------
\* main
\* ------------------------------------------------------------------------
\* The value argparse stores for an option that is not on the command line.
None == "None"

\* The command lines: each of the two options is given or left out.
CommandLines ==
    [csv_path : {"roster.csv", None}, csrf_token : {"token", None}]

\* The options declared with required=True: neither add_argument call
\* sets it.
RequiredOptions == {}

\* parser.parse_args() exits with a usage error when a required option is
\* missing.
UsageError(a) == \E o \in RequiredOptions : a[o] = None

\* main(): parse the command line, construct NAVAnalyzer (which only stores
\* the two values and builds the headers), call analyze_securities.
Main ==
    /\ pc = "main"
    /\ pc' = IF UsageError(args) THEN "usage" ELSE "load"
    /\ UNCHANGED <<df, idx, fetchv, locals, batch, status, caught, uncaught,
                   saves, input, tapes>>

\* pd.read_csv(None) raises: without csv_path there is no readable file.
InitMain ==
    /\ args \in CommandLines
    /\ csv \in CsvFiles
    /\ args.csv_path = None => ~csv.readable
    /\ rec = FALSE
    /\ pc = "main"
    /\ FreshData
    /\ NoTapes

NextMain == Main \/ Next

SpecMain == InitMain /\ [][NextMain]_vars

\* The scheduler runs the single thread until it returns or raises: every
\* call returns or raises, so the step that is enabled is taken.
FairSpec == Spec /\ WF_vars(Next)

\* One run with the requests to the upstream counted (upos), under the same
\* scheduling.
FairSpecCounted == InitRerun /\ [][Next]_vars /\ WF_vars(Next)

\* ------------------------------------------------------------------------
\* Helpers of the properties
\* ------------------------------------------------------------------------
Terminal(i) == status[i] \in {"recorded", "failed"}
AllTerminal == \A i \in 1..Len(df) : Terminal(i)

\* The roster positions up to n that did not fail, in roster order.
RECURSIVE Survivors(_)
Survivors(n) ==
    IF n = 0 THEN <<>>
    ELSE IF status[n] = "failed" THEN Survivors(n - 1)
    ELSE Append(Survivors(n - 1), n)

IsinsOf(rows) == [k \in 1..Len(rows) |-> rows[k]["isin"]]

UniqueIsins ==
    \A i, j \in 1..Len(df) : df[i].isin = df[j].isin => i = j

\* ------------------------------------------------------------------------
\* C1
\* ------------------------------------------------------------------------
\* C1: whatever the roster and whichever securities fail, no exception
\* leaves analyze_securities once the roster is loaded, and the summary
\* written at the end holds exactly the securities that did not fail, in
\* roster order.
C1_FailureIsolation ==
    /\ csv.readable => uncaught = NoException
    /\ pc = "done" =>
         /\ Len(saves) = 1
         /\ IsinsOf(saves[1].rows)
              = [k \in 1..Len(Survivors(Len(df))) |->
                    df[Survivors(Len(df))[k]].isin]

\* A roster of 3 whose 2nd security failed: 2 rows, securities 1 and 3.
C1_Witness ==
    /\ pc = "done"
    /\ Len(df) = 3
    /\ status = <<"recorded", "failed", "recorded">>
    /\ Len(saves[1].rows) = 2
    /\ df[1].isin # df[3].isin

\* ------------------------------------------------------------------------
\* C2
\* ------------------------------------------------------------------------
\* C2: at most 5 attempts are made for one security; a 5th attempt that
\* succeeds hands its data on to the pipeline (the security is not failed
\* by the fetch), and a 5th attempt that fails fails the security without
\* a further attempt or wait.
C2_RetryCap ==
    /\ attempt \in 0..5
    /\ (attempt = 5 /\ outcome = NoFailure) =>
         /\ caught.type # "RetryError"
         /\ pc \notin {"fetch", "wait"}
         /\ pc = "process" => status[idx] = "fetched"
    /\ (attempt = 5 /\ outcome # NoFailure) =>
         /\ pc \notin {"fetch", "wait", "process", "stats", "report", "append"}
         /\ status[idx] = "failed"

\* Attempts 1-4 failed, the 5th succeeded, and the row was appended.
C2_Witness ==
    /\ attempt = 5
    /\ outcome = NoFailure
    /\ pc = "next"
    /\ status[idx] = "recorded"
    /\ Len(results) > 0
    /\ src[Len(src)] = idx

\* ------------------------------------------------------------------------
\* C3
\* ------------------------------------------------------------------------
\* C3: the summary is never written more than once, it is written only
\* when every roster entry is recorded or failed and holds all accumulated
\* rows, and whenever the roster loads the run eventually writes it, also
\* when no security succeeded (the csv file does not change during a run,
\* so its being readable is a property of the initial state).
C3_SummaryOnceAtEnd ==
    /\ [](Len(saves) <= 1)
    /\ [](Len(saves) = 1 =>
            /\ pc = "done"
            /\ AllTerminal
            /\ saves[1].rows = results)
    /\ [](pc # "save" => (pc = "done" <=> Len(saves) = 1))
    /\ (csv.readable => <>(Len(saves) = 1))

\* A roster whose securities all failed: the empty summary was written.
C3_Witness ==
    /\ pc = "done"
    /\ Len(df) = 3
    /\ \A i \in 1..Len(df) : status[i] = "failed"
    /\ Len(saves) = 1
    /\ saves[1].rows = <<>>

\* ------------------------------------------------------------------------
\* C4
\* ------------------------------------------------------------------------
\* The rows never outnumber the visited roster records, every record gives
\* at most one row, and a failed record gives none.
RowBound ==
    /\ Len(results) <= idx
    /\ Len(src) = Len(results)
    /\ \A k \in 1..Len(src) :
         /\ src[k] \in 1..idx
         /\ status[src[k]] = "recorded"
    /\ \A j, k \in 1..Len(src) : j < k => src[j] < src[k]

\* C4: the rows never outnumber the visited roster records, every record
\* gives at most one row, a failed record none, and every field of the
\* roster record has the same value in the row built from it.
C4_RowBoundAndFields ==
    /\ RowBound
    /\ \A k \in 1..Len(results) :
         \A c \in DOMAIN df[src[k]] : results[k][c] = df[src[k]][c]

\* A row was appended for a roster record that has a column called like
\* one of the six metrics.
C4_Witness ==
    /\ Len(results) > 0
    /\ "sharpe" \in DOMAIN df[src[1]]

\* ------------------------------------------------------------------------
\* C5
\* ------------------------------------------------------------------------
\* C5: the series process_nav_data returns is traversed in non-decreasing
\* timestamp order, whatever the order of the raw pairs, and every value
\* stays with its timestamp.
C5_Chronological ==
    pc \in {"stats", "report", "append"} =>
      /\ \A i, j \in 1..Len(nav_series) :
           i < j => nav_series[i].date.epoch_s <= nav_series[j].date.epoch_s
      /\ \A i \in 1..Len(nav_series) :
           \E k \in 1..Len(nav_data.data) :
             /\ nav_data.data[k][1] = nav_series[i].date.epoch_s
             /\ nav_data.data[k][2] = nav_series[i].nav

\* The series was built from the raw pairs [[200,10],[100,9]].
C5_Witness ==
    /\ pc = "stats"
    /\ nav_data.data = << <<200, 10>>, <<100, 9>> >>
    /\ Len(nav_series) = 2

\* ------------------------------------------------------------------------
\* C6
\* ------------------------------------------------------------------------
\* C6: when the roster cannot be loaded the exception leaves
\* analyze_securities before any row is visited: no attempt is made, no
\* report is written and no summary is written.
C6_FatalInputFailure ==
    ~csv.readable =>
      /\ pc \in {"load", "aborted"}
      /\ pc = "aborted" <=> uncaught = Raised("CsvError", 0)
      /\ idx = 0
      /\ attempt = 0
      /\ response = NoResponse
      /\ reports = {}
      /\ results = <<>>
      /\ saves = <<>>

\* The load failed and the run is over.
C6_Witness ==
    /\ ~csv.readable
    /\ pc = "aborted"
    /\ uncaught.type = "CsvError"

\* ------------------------------------------------------------------------
\* C7
\* ------------------------------------------------------------------------
\* The fetch of the current row was given up after its 5th attempt failed.
FetchExhausted ==
    /\ idx > 0
    /\ attempt = 5
    /\ outcome # NoFailure

\* The failure of the 5th attempt, derived from the response it received.
FifthFailure == AttemptFailure(AttemptRaises(response), 5)

\* C7 as claimed: when all 5 attempts fail, the exception that reaches the
\* caller is the failure of the 5th attempt itself and no other error, and
\* no data is returned.
C7_LastFailureRaised ==
    (FetchExhausted /\ pc = "next") =>
      /\ caught = Raised(FifthFailure.type, 5)
      /\ nav_data = NoObject
      /\ status[idx] = "failed"

\* C7 as amended: when all 5 attempts fail, the exception that reaches the
\* caller is tenacity's RetryError, which carries the failure of the 5th
\* attempt (not of an earlier one) as its last attempt, and no data is
\* returned.
C7_RetryErrorCarriesLast ==
    (FetchExhausted /\ pc = "next") =>
      /\ caught = RetryError(FifthFailure)
      /\ outcome = FifthFailure
      /\ caught.last_attempt.type # "none"
      /\ nav_data = NoObject
      /\ status[idx] = "failed"

\* Five attempts failed, the last one on the format check, and the except
\* clause holds the error.
C7_Witness ==
    /\ FetchExhausted
    /\ pc = "next"
    /\ caught.type = "RetryError"
    /\ caught.last_attempt = AttemptFailure("ValueError", 5)

\* ------------------------------------------------------------------------
\* C8
\* ------------------------------------------------------------------------
\* The four conditions of acceptance: the transport call succeeded with no
\* HTTP error status, the body parsed, the success indicator is there and
\* the data field is there.
Accepted(r) ==
    /\ r.net = "ok"
    /\ r.status_code \in 200..399
    /\ r.body.kind \in {"dict", "list"}
    /\ r.body.obj.status = "success"
    /\ "data" \in r.body.obj.keys

\* C8: data is returned only for a response that meets the four
\* conditions; an attempt whose response misses one returns nothing and is
\* followed by a wait and another attempt while fewer than 5 were made.
C8_ResponseAcceptance ==
    /\ nav_data # NoObject => (Accepted(response) /\ nav_data = response.body.obj)
    /\ (pc = "process" /\ status[idx] = "fetched") => Accepted(response)
    /\ (response # NoResponse /\ ~Accepted(response)) =>
         /\ nav_data = NoObject
         /\ outcome.type # "none"
         /\ attempt < 5 => pc = "wait"
         /\ attempt = 5 => status[idx] = "failed"

\* A 200 response with status "success" but no data field was refused and
\* the retry wait began.
C8_Witness ==
    /\ pc = "wait"
    /\ attempt < 5
    /\ response.net = "ok"
    /\ response.status_code = 200
    /\ response.body.kind = "dict"
    /\ response.body.obj.status = "success"
    /\ "data" \notin response.body.obj.keys

\* ------------------------------------------------------------------------
\* C9
\* ------------------------------------------------------------------------
\* C9: at the end of a run over a roster with unique ISINs, the report
\* file of a security was written if and only if the summary has a row of
\* that security.
C9_ReportsMatchRows ==
    (pc = "done" /\ UniqueIsins) =>
      \A i \in 1..Len(df) :
        df[i].isin \in reports
          <=> \E k \in 1..Len(saves[1].rows) :
                saves[1].rows[k]["isin"] = df[i].isin

\* A finished run in which one security got its report and its row and
\* another one failed when its report was to be written.
C9_Witness ==
    /\ pc = "done"
    /\ UniqueIsins
    /\ Len(df) = 2
    /\ status = <<"recorded", "failed">>
    /\ caught.type = "ReportError"
    /\ reports = {df[1].isin}
    /\ Len(saves[1].rows) = 1

\* ------------------------------------------------------------------------
\* C10
\* ------------------------------------------------------------------------
\* C10: a second run on the same roster that receives the same upstream
\* responses (and the same library outcomes) writes a summary with the same
\* rows in the same order and the same values as the first run, whatever
\* the retry waits and the dates of the two runs.
C10_Determinism ==
    (run = 2 /\ pc = "done") =>
      /\ Len(saves) = 1
      /\ Len(first_saves) = 1
      /\ saves[1].rows = first_saves[1].rows

\* Two finished runs on different dates, with a retry in the second, whose
\* summaries have two rows.
C10_Witness ==
    /\ run = 2
    /\ pc = "done"
    /\ saves[1].name # first_saves[1].name
    /\ Len(saves[1].rows) = 2
    /\ attempt > 1

\* ------------------------------------------------------------------------
\* C11
\* ------------------------------------------------------------------------
\* C11: a command line that leaves out the roster path or the token does
\* not begin processing: no roster is loaded and no retrieval attempt is
\* made.
C11_RequiredParameters ==
    (args.csv_path = None \/ args.csrf_token = None) =>
      /\ pc \in {"main", "usage", "load", "aborted"}
      /\ df = <<>>
      /\ attempt = 0

\* The token was left out and a retrieval attempt was made for the first
\* row of the loaded roster.
C11_Witness ==
    /\ args.csrf_token = None
    /\ args.csv_path # None
    /\ Len(df) > 0
    /\ idx = 1
    /\ attempt = 1

\* ------------------------------------------------------------------------
\* C12
\* ------------------------------------------------------------------------
\* The steps a security may take.
StageOrder ==
    { <<"pending", "fetched">>, <<"fetched", "processed">>,
      <<"processed", "reported">>, <<"reported", "recorded">> }
      \cup { <<st, "failed">> :
               st \in {"pending", "fetched", "processed", "reported"} }

\* C12: a security only moves pending -> fetched -> processed -> reported
\* -> recorded, or to failed from a state that is not terminal; recorded and
\* failed are never left; and a row is appended only for the security whose
\* fetch returned, whose series and statistics were computed from it and
\* whose report was written, at the step that makes it recorded.
C12_StageOrder ==
    [][ /\ \A i \in DOMAIN status \cap DOMAIN status' :
             status'[i] # status[i] => <<status[i], status'[i]>> \in StageOrder
        /\ results' # results =>
             /\ idx \in 1..Len(df)
             /\ status[idx] = "reported"
             /\ status'[idx] = "recorded"
             /\ df[idx].isin \in reports
             /\ "data" \in nav_data.keys
             /\ nav_series = process_nav_data(nav_data.data)
             /\ stats = generate_statistics(nav_series)
      ]_vars

\* One security went all the way to recorded, the next one failed, the
\* third one is still pending.
C12_Witness ==
    /\ pc = "next"
    /\ Len(df) = 3
    /\ status = <<"recorded", "failed", "pending">>
    /\ Len(results) = 1

\* ------------------------------------------------------------------------
\* C13
\* ------------------------------------------------------------------------
\* The securities that are neither pending nor recorded nor failed.
InProgress ==
    { i \in 1..Len(status) : status[i] \notin {"pending", "recorded", "failed"} }

\* C13: the roster is walked in order, one security at a time: every
\* entry before the current one is recorded or failed, every entry after it
\* is still pending, so at most one security is in progress and an attempt
\* is only ever made for the current entry, after all earlier entries are
\* done.
C13_Sequential ==
    /\ idx \in 0..Len(df)
    /\ \A i \in 1..Len(status) :
         /\ i < idx => Terminal(i)
         /\ i > idx => status[i] = "pending"
    /\ Cardinality(InProgress) <= 1
    /\ InProgress \subseteq {idx}
    /\ pc \in {"fetch", "wait", "process", "stats", "report", "append"} =>
         /\ idx \in 1..Len(df)
         /\ ~Terminal(idx)
    /\ attempt > 0 => idx > 0

\* The second of three securities waits for a retry: the first is done, the
\* third has not started.
C13_Witness ==
    /\ Len(df) = 3
    /\ idx = 2
    /\ pc = "wait"
    /\ attempt = 2
    /\ status = <<"recorded", "pending", "pending">>

\* ------------------------------------------------------------------------
\* C14
\* ------------------------------------------------------------------------
\* Some security takes the state st in this step.
Becomes(st) ==
    \E i \in DOMAIN status \cap DOMAIN status' :
      status[i] # st /\ status'[i] = st

\* C14: the accumulator starts empty; a step either leaves it as it is or
\* appends exactly one row to it, and it appends exactly when a security
\* becomes recorded; a step in which a security fails leaves it unchanged.
\* Hence the accumulator of every earlier state is a prefix of every later
\* one.
C14_AppendOnly ==
    /\ results = <<>>
    /\ [][ /\ \/ results' = results
              \/ /\ Len(results') = Len(results) + 1
                 /\ SubSeq(results', 1, Len(results)) = results
                 /\ Becomes("recorded")
           /\ Becomes("recorded") => Len(results') = Len(results) + 1
           /\ Becomes("failed") => results' = results
         ]_vars

\* A security failed between two recorded ones and both rows are there.
C14_Witness ==
    /\ pc = "next"
    /\ Len(df) = 3
    /\ status = <<"recorded", "failed", "recorded">>
    /\ Len(results) = 2
    /\ src = <<1, 3>>

\* ------------------------------------------------------------------------
\* C15
\* ------------------------------------------------------------------------
\* The stages after the fetch and the places each may hand over to.
AfterFetch ==
    { <<"process", "stats">>, <<"stats", "report">>, <<"report", "append">>,
      <<"process", "next">>, <<"stats", "next">>, <<"report", "next">>,
      <<"append", "next">> }

\* C15: an attempt is made only for a security that is still pending, so
\* none follows a successful attempt of the same security; after the fetch
\* the stages run once each in order, and a stage that fails makes the
\* security failed in that very step and hands over to the next row with no
\* further attempt.
C15_OnlyFetchRetried ==
    [][ /\ attempt' = attempt + 1 =>
             /\ pc = "fetch"
             /\ idx' = idx
             /\ status[idx] = "pending"
        /\ attempt' # attempt => (attempt' = attempt + 1 \/ idx' = idx + 1)
        /\ pc \in {"process", "stats", "report", "append"} =>
             /\ <<pc, pc'>> \in AfterFetch
             /\ attempt' = attempt
             /\ idx' = idx
             /\ (pc' = "next" /\ pc # "append") => status'[idx] = "failed"
      ]_vars

\* The first attempt succeeded, then the statistics failed: the security is
\* failed and still has one attempt only.
C15_Witness ==
    /\ pc = "next"
    /\ idx > 0
    /\ attempt = 1
    /\ outcome = NoFailure
    /\ status[idx] = "failed"
    /\ caught.type = "StatsError"

\* ------------------------------------------------------------------------
\* C16
\* ------------------------------------------------------------------------
\* The number of waits a security with the given attempts has had: one less
\* than its attempts, the wait before the coming attempt included.
WaitsFor(n) ==
    IF pc = "fetch" THEN n
    ELSE IF n = 0 THEN 0 ELSE n - 1

\* C16: the waits of the current security are one less than its attempts
\* (counting the wait that precedes the coming attempt), every wait lasts
\* between wait_min and wait_max, and a wait happens only after a failed
\* attempt that is not the last allowed one and before the next attempt of
\* the same security: never before the first attempt, after a success,
\* after the fifth failure or between two securities.
C16_WaitPlacement ==
    /\ [](/\ waits = WaitsFor(attempt)
          /\ slept # 0 =>
               /\ slept \in wait_min..wait_max
               /\ pc = "fetch"
               /\ attempt \in 1..(stop_after_attempt - 1))
    /\ [][ /\ waits' # waits =>
                \/ /\ waits' = waits + 1
                   /\ slept' \in wait_min..wait_max
                   /\ idx' = idx
                   /\ attempt' = attempt
                   /\ attempt \in 1..(stop_after_attempt - 1)
                   /\ outcome.type # "none"
                   /\ status[idx] = "pending"
                   /\ pc' = "fetch"
                \/ /\ waits' = 0
                   /\ idx' = idx + 1
           /\ slept' # 0 => waits' = waits + 1
         ]_vars

\* The second security used all five attempts with four waits between them,
\* after a first security that was recorded at its first attempt.
C16_Witness ==
    /\ pc = "next"
    /\ idx = 2
    /\ status[1] = "recorded"
    /\ status[2] = "failed"
    /\ attempt = stop_after_attempt
    /\ waits = stop_after_attempt - 1
    /\ slept = 0

\* ------------------------------------------------------------------------
\* C17
\* ------------------------------------------------------------------------
\* C17: the retrieval attempts of a run (upos) never exceed five per record
\* begun, hence five times the size of the roster; the loop moves forward
\* one record at a time, a security that is recorded or failed keeps that
\* status and is not worked on again; and with every call returning or
\* raising, a run on a readable roster reaches the summary write and is
\* done.
C17_BoundedWork ==
    /\ [](/\ upos <= stop_after_attempt * idx
          /\ idx <= Len(df)
          /\ Len(df) <= Len(csv.frame)
          /\ upos <= stop_after_attempt * Len(csv.frame)
          /\ (idx > 0 /\ Terminal(idx)) => pc \in {"next", "save", "done"})
    /\ [][ /\ \A i \in DOMAIN status :
                Terminal(i) => /\ i \in DOMAIN status'
                               /\ status'[i] = status[i]
           /\ idx' # idx =>
                /\ idx' = idx + 1
                /\ idx > 0 => Terminal(idx)
                /\ status'[idx'] = "pending"
           /\ upos' # upos => /\ upos' = upos + 1
                              /\ attempt' = attempt + 1
                              /\ ~Terminal(idx)
         ]_vars
    /\ csv.readable => <>(pc = "done" /\ Len(saves) = 1 /\ AllTerminal)

\* A run over two records that used all ten attempts and is done.
C17_Witness ==
    /\ pc = "done"
    /\ Len(df) = 2
    /\ upos = stop_after_attempt * 2
    /\ status = <<"failed", "failed">>
    /\ Len(saves) = 1

====
